---- MODULE Spec2Model ----
(***************************************************************************)
(* Connection ledger (PostgreSQL, source of truth) and its best-effort     *)
(* mirror (Neo4j) as driven by NetworkService, Neo4jClient, GraphService   *)
(* and the request-scoped session of get_db.                               *)
(*                                                                         *)
(* Every HTTP request runs in its own session (slot).  A connection        *)
(* mutation is four awaits: SELECT, flush (the INSERT / UPDATE / DELETE,   *)
(* still uncommitted), mirror sync, and the COMMIT issued by get_db after  *)
(* the handler returned.  Other requests interleave between the awaits.    *)
(* PostgreSQL runs at its default READ COMMITTED level: a SELECT sees the  *)
(* committed rows, an UPDATE / DELETE waits for the row lock and an        *)
(* INSERT is checked against uq_connection_pair (requester, addressee).    *)
(***************************************************************************)
EXTENDS Integers, FiniteSets, Sequences, TLC

\* ---------------------------------------------------------------- bounds
NumUsers == 2      \* registered, active users 1..NumUsers
NumSlots == 2      \* requests in flight at the same time
MaxOps   == 4      \* requests that reach their write in one behaviour

NumMembers == 4    \* users rows of the read-side specifications
MaxConnections == 3  \* connections rows of the read-side specifications
MaxDepth == 2      \* largest max_depth asked of find_path

NumProfiles == 3   \* users rows of the similarity and graph specifications
NumSkills == 3     \* skills a user can hold there
NumCommunities == 1  \* communities a user can be a member of there
MaxLimit == 2      \* largest limit asked of compute_user_similarities
MaxGraphLimit == 3  \* largest small limit asked of get_knowledge_graph

Users    == 1..NumUsers
Slots    == 1..NumSlots
NoUser   == 0      \* an id that no (active) user row carries
NoConn   == 0      \* an id that no connection row carries
NoTime   == 0      \* responded_at IS NULL
NoMessage == 0    \* message IS NULL
\* the text a requester attaches; it names its author
MessagesOf(requester_id) == {requester_id}

VARIABLES
  rows,          \* committed rows of table connections
  req,           \* per slot: the request in flight in that session
  last,          \* the request answered last, until the next one is admitted
  clock,         \* wall clock; it ticks at least when a writing request starts
  neoUp,         \* the graph store answers
  neoConnected,  \* Neo4jClient._connected (and _driver is not None)
  nextId,        \* uuid4 stand-in: ids are fresh, never reused
  neoNodes,      \* ids of the (:User) nodes of the mirror
  neoEdges       \* [:CONNECTED_TO] relationships of the mirror

VARIABLES
  tables,        \* the other tables a read-side query joins: users, user_skills, ...
  answer,        \* what the last read-side query returned
  neoLinks       \* [:HAS_SKILL], [:MEMBER_OF], [:ATTENDING] relationships of the mirror

vars == <<rows, req, last, clock, nextId, neoUp, neoConnected, neoNodes, neoEdges,
          tables, answer, neoLinks>>

\* the read-side state, which the connection requests leave alone
NoTables == [users |-> {}]
NoAnswer == [op |-> "none"]

\* ------------------------------------------------------------ data model
\* profiles/models.py Connection
Connection(id, requester_id, addressee_id, status, message, requested_at, responded_at) ==
  [id |-> id, requester_id |-> requester_id, addressee_id |-> addressee_id,
   status |-> status, message |-> message,
   requested_at |-> requested_at, responded_at |-> responded_at]

NoRow == Connection(NoConn, NoUser, NoUser, "none", NoMessage, NoTime, NoTime)

Columns == {"requester_id", "addressee_id", "status", "message",
            "requested_at", "responded_at"}

\* uq_connection_pair: the key is the ORDERED pair
uq_connection_pair(r) == <<r.requester_id, r.addressee_id>>

\* users.is_active for the addressee lookup
IsActiveUser(u) == u \in Users

\* utc_now_naive / datetime.now
utc_now_naive == clock

\* n: number of the request; seen: what its SELECT returned; byId: the rows that
\* carried the requested connection id then; w*: its flushed write; sync: what
\* became of its mirror write; up: whether the store answered when it read
IdleReq ==
  [n |-> 0, op |-> "none", actor |-> NoUser, target |-> 0, msg |-> NoMessage,
   pc |-> "idle", seen |-> {}, byId |-> {},
   wkind |-> "none", wcols |-> {}, wrow |-> NoRow,
   sync |-> "none", up |-> FALSE, outcome |-> "none"]

\* ------------------------------------------------------- relational store
\* a slip: the existence check looks in the direction of the request only
ExistingConnections_one_way(requester_id, addressee_id) ==
  {r \in rows : r.requester_id = requester_id /\ r.addressee_id = addressee_id}

\* the OR of the two ANDs in send_connection_request: both directions
ExistingConnections(requester_id, addressee_id) ==
  {r \in rows : \/ (r.requester_id = requester_id /\ r.addressee_id = addressee_id)
                \/ (r.requester_id = addressee_id /\ r.addressee_id = requester_id)}

\* the row a session holds after scalar_one_or_none() returned one
Loaded(s) == CHOOSE r \in req[s].seen : TRUE

Committed(id) == CHOOSE r \in rows : r.id = id
IsCommitted(id) == \E r \in rows : r.id = id

\* the unit of work writes only the attributes that differ from the loaded ones
ChangedColumns(loaded, new) == {c \in Columns : new[c] # loaded[c]}

\* UPDATE ... SET <cols> WHERE id = :id applied to the row as it is then
Merge(old, cols, new) == [c \in DOMAIN old |-> IF c \in cols THEN new[c] ELSE old[c]]

\* a session whose flushed write is not yet committed or rolled back
Uncommitted(t) == req[t].pc \in {"sync", "commit"} /\ req[t].wkind # "none"

\* the row version an uncommitted write would leave behind
TxRow(t) ==
  IF req[t].wkind = "insert" THEN req[t].wrow
  ELSE Merge(Committed(req[t].wrow.id), req[t].wcols, req[t].wrow)

\* row lock: UPDATE / DELETE of a row wait for the transaction that wrote it
RowLocked(s, id) ==
  \E t \in Slots \ {s} : Uncommitted(t) /\ req[t].wkind \in {"update", "delete"}
                         /\ req[t].wrow.id = id

\* unique index: a writer of key k waits for every in-doubt version carrying k
KeyInDoubt(s, key, id) ==
  \E t \in Slots \ {s} :
     /\ Uncommitted(t)
     /\ req[t].wrow.id # id
     /\ \/ req[t].wkind \in {"insert", "update"} /\ uq_connection_pair(TxRow(t)) = key
        \/ req[t].wkind \in {"update", "delete"}
             /\ IsCommitted(req[t].wrow.id)
             /\ uq_connection_pair(Committed(req[t].wrow.id)) = key

\* uq_connection_pair violated by a committed row other than id
KeyTaken(key, id) == \E r \in rows : r.id # id /\ uq_connection_pair(r) = key

\* COMMIT of the session's single write
ApplyTx(s) ==
  CASE req[s].wkind = "insert" -> rows \cup {req[s].wrow}
    [] req[s].wkind = "update" ->
         (rows \ {Committed(req[s].wrow.id)})
           \cup {Merge(Committed(req[s].wrow.id), req[s].wcols, req[s].wrow)}
    [] req[s].wkind = "delete" -> {r \in rows : r.id # req[s].wrow.id}
    [] OTHER -> rows

\* ------------------------------------------------------------ graph mirror
Edge(src, dst, status, message) ==
  [src |-> src, dst |-> dst, status |-> status, message |-> message]

\* Neo4jClient.is_connected
is_connected == neoConnected

\* MATCH both users, MERGE (requester)-[r:CONNECTED_TO]->(addressee), SET pending
create_connection_request(E, N, requester_id, addressee_id, message) ==
  IF requester_id \in N /\ addressee_id \in N
  THEN {e \in E : ~(e.src = requester_id /\ e.dst = addressee_id)}
         \cup {Edge(requester_id, addressee_id, "pending", message)}
  ELSE E

\* MATCH (requester)-[r]->(addressee) WHERE r.status = 'pending' SET accepted
accept_connection(E, requester_id, addressee_id) ==
  {IF e.src = requester_id /\ e.dst = addressee_id /\ e.status = "pending"
   THEN [e EXCEPT !.status = "accepted"] ELSE e : e \in E}

\* MATCH (requester)-[r]->(addressee) WHERE r.status = 'pending' SET declined
decline_connection(E, requester_id, addressee_id) ==
  {IF e.src = requester_id /\ e.dst = addressee_id /\ e.status = "pending"
   THEN [e EXCEPT !.status = "declined"] ELSE e : e \in E}

\* a slip: a directed pattern, only the edge from user1 to user2 is deleted
remove_connection_directed(E, user1_id, user2_id) ==
  {e \in E : ~(e.src = user1_id /\ e.dst = user2_id)}

\* MATCH (u1)-[r:CONNECTED_TO]-(u2) DELETE r  (undirected pattern)
remove_connection(E, user1_id, user2_id) ==
  {e \in E : ~({e.src, e.dst} = {user1_id, user2_id})}

\* after lifespan startup: init_neo4j() connected iff the store answered then;
\* the mirror keeps the user nodes an earlier run or seed_demo left in it
Init ==
  /\ rows = {}
  /\ req = [s \in Slots |-> IdleReq]
  /\ last = IdleReq
  /\ clock = 0
  /\ nextId = 1
  /\ neoUp \in BOOLEAN
  /\ neoConnected = neoUp
  /\ neoNodes \in {{}, Users}
  /\ neoEdges = {}
  /\ tables = NoTables
  /\ answer = NoAnswer
  /\ neoLinks = {}

\* --------------------------------------------------------------- requests
\* a request is taken by the lowest free session
CanStart(s) ==
  /\ req[s].pc = "idle"
  /\ \A t \in Slots : t < s => req[t].pc # "idle"

NewReq(op, actor, target, msg) ==
  [IdleReq EXCEPT !.n = clock + 1, !.op = op, !.actor = actor, !.target = target,
                  !.msg = msg]

\* a request that ended frees its session and becomes the last finished one
Step(s, r) ==
  IF r.pc = "done"
  THEN req' = [req EXCEPT ![s] = IdleReq] /\ last' = r
  ELSE req' = [req EXCEPT ![s] = r] /\ UNCHANGED last

Quiet == \A t \in Slots : req[t].pc = "idle"

\* a request arrives: one that goes on to write counts against MaxOps.  One that
\* ends at its SELECT or at its mirror query is a single atomic step whose
\* result depends on the committed state alone; it is taken between the writes
Start(s, r) ==
  /\ CanStart(s)
  /\ r.pc # "done" => clock < MaxOps
  /\ r.pc = "done" => Quiet
  /\ clock' = IF r.pc = "done" THEN clock ELSE clock + 1
  /\ req' = [req EXCEPT ![s] = IF r.pc = "done" THEN IdleReq ELSE r]
  /\ last' = IF r.pc = "done" THEN r ELSE IdleReq

Finish(r, outcome) == [r EXCEPT !.pc = "done", !.outcome = outcome]

\* send_connection_request, lines 34-66: validation and the existence SELECT
SendCheck(requester_id, addressee_id, message) ==
  LET r0 == NewReq("send", requester_id, addressee_id, message)
      existing == ExistingConnections(requester_id, addressee_id)
      r1 == [r0 EXCEPT !.seen = existing]
  IN  IF requester_id = addressee_id THEN Finish(r0, "Cannot connect with yourself")
      ELSE IF ~IsActiveUser(addressee_id) THEN Finish(r0, "User not found")
      ELSE IF Cardinality(existing) > 1 THEN Finish(r1, "MultipleResultsFound")
      ELSE IF existing = {} THEN [r1 EXCEPT !.pc = "flush"]
      ELSE LET c == CHOOSE r \in existing : TRUE
           IN  IF c.status = "accepted" THEN Finish(r1, "Already connected")
               ELSE IF c.status = "pending"
                    THEN Finish(r1, "Connection request already pending")
               ELSE [r1 EXCEPT !.pc = "flush"]

SendBegin(s, requester_id, addressee_id, message) ==
  /\ Start(s, SendCheck(requester_id, addressee_id, message))
  /\ UNCHANGED <<rows, nextId, neoUp, neoConnected, neoNodes, neoEdges>>

\* lines 69-74: the attributes a revival assigns to the declined row
Revived(c, requester_id, addressee_id, message) ==
  Connection(c.id, requester_id, addressee_id, "pending", message, utc_now_naive, NoTime)

\* lines 85-90 and the column defaults: the row a fresh request inserts
NewConnection(id, requester_id, addressee_id, message) ==
  Connection(id, requester_id, addressee_id, "pending", message, utc_now_naive, NoTime)

\* db.flush() of send_connection_request: line 75 (UPDATE) or line 92 (INSERT)
SendFlush(s) ==
  LET r == req[s] IN
  /\ r.op = "send" /\ r.pc = "flush"
  /\ IF r.seen = {}
     THEN LET new == NewConnection(nextId, r.actor, r.target, r.msg)
              key == uq_connection_pair(new)
          IN  /\ ~KeyInDoubt(s, key, new.id)
              /\ IF KeyTaken(key, new.id)
                 THEN /\ Step(s, Finish(r, "IntegrityError"))
                      /\ UNCHANGED nextId
                 ELSE /\ Step(s, [r EXCEPT !.pc = "sync", !.wkind = "insert",
                                           !.wcols = Columns, !.wrow = new])
                      /\ nextId' = nextId + 1
     ELSE LET c == Loaded(s)
              new == Revived(c, r.actor, r.target, r.msg)
              cols == ChangedColumns(c, new)
              rekey == cols \cap {"requester_id", "addressee_id"} # {}
              key == uq_connection_pair(new)
          IN  /\ ~RowLocked(s, c.id)
              /\ (IsCommitted(c.id) /\ rekey) => ~KeyInDoubt(s, key, c.id)
              /\ Step(s, IF ~IsCommitted(c.id) THEN Finish(r, "StaleDataError")
                   ELSE IF rekey /\ KeyTaken(key, c.id) THEN Finish(r, "IntegrityError")
                   ELSE [r EXCEPT !.pc = "sync", !.wkind = "update",
                                  !.wcols = cols, !.wrow = new])
              /\ UNCHANGED nextId
  /\ UNCHANGED <<rows, clock, neoUp, neoConnected, neoNodes, neoEdges>>

\* _sync_connection_to_neo4j(requester, addressee, "pending", message):
\* returns when not connected, and catches whatever the driver raises
SendSync(s) ==
  LET r == req[s] IN
  /\ r.op = "send" /\ r.pc = "sync"
  /\ IF ~is_connected
     THEN /\ Step(s, [r EXCEPT !.pc = "commit", !.sync = "skipped"])
          /\ UNCHANGED neoEdges
     ELSE IF ~neoUp
     THEN /\ Step(s, [r EXCEPT !.pc = "commit", !.sync = "raised"])
          /\ UNCHANGED neoEdges
     ELSE /\ Step(s, [r EXCEPT !.pc = "commit", !.sync = "applied"])
          /\ neoEdges' = create_connection_request(neoEdges, neoNodes,
                                                   r.actor, r.target, r.msg)
  /\ UNCHANGED <<rows, clock, nextId, neoUp, neoConnected, neoNodes>>

\* get_db line 39: session.commit() once the handler has returned
Commit(s) ==
  /\ req[s].pc = "commit"
  /\ rows' = ApplyTx(s)
  /\ Step(s, Finish(req[s], "ok"))
  /\ UNCHANGED <<clock, nextId, neoUp, neoConnected, neoNodes, neoEdges>>

\* get_db lines 40-42: the commit raises, the session is rolled back
CommitFail(s) ==
  /\ req[s].pc = "commit"
  /\ Step(s, Finish(req[s], "CommitError"))
  /\ UNCHANGED <<rows, clock, nextId, neoUp, neoConnected, neoNodes, neoEdges>>

\* accept_connection / decline_connection, the SELECT: id, addressee, pending
PendingFor(connection_id, user_id) ==
  {r \in rows : r.id = connection_id /\ r.addressee_id = user_id
                /\ r.status = "pending"}

\* remove_connection, the SELECT: id, accepted, actor is requester or addressee
AcceptedOf(connection_id, user_id) ==
  {r \in rows : r.id = connection_id /\ r.status = "accepted"
                /\ (r.requester_id = user_id \/ r.addressee_id = user_id)}

RespondCheck(op, found, connection_id, user_id, notfound) ==
  LET r0 == [NewReq(op, user_id, connection_id, NoMessage) EXCEPT
               !.seen = found, !.byId = {r \in rows : r.id = connection_id}]
  IN  IF found = {} THEN Finish(r0, notfound) ELSE [r0 EXCEPT !.pc = "flush"]

AcceptBegin(s, connection_id, user_id) ==
  /\ Start(s, RespondCheck("accept", PendingFor(connection_id, user_id),
                    connection_id, user_id, "Connection request not found"))
  /\ UNCHANGED <<rows, nextId, neoUp, neoConnected, neoNodes, neoEdges>>

DeclineBegin(s, connection_id, user_id) ==
  /\ Start(s, RespondCheck("decline", PendingFor(connection_id, user_id),
                    connection_id, user_id, "Connection request not found"))
  /\ UNCHANGED <<rows, nextId, neoUp, neoConnected, neoNodes, neoEdges>>

RemoveBegin(s, connection_id, user_id) ==
  /\ Start(s, RespondCheck("remove", AcceptedOf(connection_id, user_id),
                    connection_id, user_id, "Connection not found"))
  /\ UNCHANGED <<rows, nextId, neoUp, neoConnected, neoNodes, neoEdges>>

\* lines 120-121 / 151-152: status and responded_at of the loaded row
Responded(c, status) == [c EXCEPT !.status = status, !.responded_at = utc_now_naive]

\* db.flush() of accept / decline: UPDATE ... WHERE id = :id, behind the row lock
RespondFlush(s, op, status) ==
  LET r == req[s]
      c == Loaded(s)
      new == Responded(c, status)
  IN  /\ r.op = op /\ r.pc = "flush"
      /\ ~RowLocked(s, c.id)
      /\ Step(s, IF ~IsCommitted(c.id) THEN Finish(r, "StaleDataError")
           ELSE [r EXCEPT !.pc = "sync", !.wkind = "update",
                          !.wcols = ChangedColumns(c, new), !.wrow = new])
      /\ UNCHANGED <<rows, clock, nextId, neoUp, neoConnected, neoNodes, neoEdges>>

AcceptFlush(s) == RespondFlush(s, "accept", "accepted")

DeclineFlush(s) == RespondFlush(s, "decline", "declined")

\* db.delete + db.flush() of remove_connection: DELETE behind the row lock
\* (a DELETE that matches no row only warns)
RemoveFlush(s) ==
  LET r == req[s]
      c == Loaded(s)
  IN  /\ r.op = "remove" /\ r.pc = "flush"
      /\ ~RowLocked(s, c.id)
      /\ Step(s, [r EXCEPT !.pc = "sync", !.wkind = "delete", !.wcols = {}, !.wrow = c])
      /\ UNCHANGED <<rows, clock, nextId, neoUp, neoConnected, neoNodes, neoEdges>>

\* neo4j_client.<op>(...) called bare from accept / decline / remove:
\* execute_query returns [] when not connected, else runs the query; what the
\* driver raises leaves the handler, and get_db rolls the session back
DirectSync(s, op, edges) ==
  LET r == req[s] IN
  /\ r.op = op /\ r.pc = "sync"
  /\ IF ~is_connected
     THEN /\ Step(s, [r EXCEPT !.pc = "commit", !.sync = "skipped"])
          /\ UNCHANGED neoEdges
     ELSE IF ~neoUp
     THEN /\ Step(s, Finish([r EXCEPT !.sync = "raised"], "MirrorError"))
          /\ UNCHANGED neoEdges
     ELSE /\ Step(s, [r EXCEPT !.pc = "commit", !.sync = "applied"])
          /\ neoEdges' = edges
  /\ UNCHANGED <<rows, clock, nextId, neoUp, neoConnected, neoNodes>>

AcceptSync(s) ==
  DirectSync(s, "accept",
             accept_connection(neoEdges, Loaded(s).requester_id, Loaded(s).addressee_id))

DeclineSync(s) ==
  DirectSync(s, "decline",
             decline_connection(neoEdges, Loaded(s).requester_id, Loaded(s).addressee_id))

\* lines 186-196: (user_id, other_user_id)
RemoveSync(s) ==
  DirectSync(s, "remove",
             remove_connection(neoEdges, req[s].actor,
                               IF Loaded(s).requester_id = req[s].actor
                               THEN Loaded(s).addressee_id ELSE Loaded(s).requester_id))

\* sync_user_to_neo4j: MERGE (u:User {id}); not connected or raising: nothing
SyncUser(s, user_id) ==
  /\ Start(s, Finish([NewReq("sync_user", user_id, 0, NoMessage) EXCEPT
                 !.sync = IF ~is_connected THEN "skipped"
                          ELSE IF ~neoUp THEN "raised" ELSE "applied"], "ok"))
  /\ neoNodes' = IF is_connected /\ neoUp THEN neoNodes \cup {user_id} ELSE neoNodes
  /\ UNCHANGED <<rows, nextId, neoUp, neoConnected, neoEdges>>

\* ------------------------------------------------------------------ reads
\* a read through the mirror: the is_connected guard answers the empty result,
\* otherwise execute_query runs the Cypher and the driver's error is not caught
MirrorRead(kind, user_id) ==
  Finish([NewReq(kind, user_id, 0, NoMessage) EXCEPT !.up = neoUp],
         IF ~is_connected THEN "empty"
         ELSE IF ~neoUp THEN "MirrorError" ELSE "ok")

Read(s, kind, user_id) ==
  /\ Start(s, MirrorRead(kind, user_id))
  /\ UNCHANGED <<rows, nextId, neoUp, neoConnected, neoNodes, neoEdges>>

ViewTypes == {"personal", "ecosystem", "discover"}

\* GraphService.get_knowledge_graph
GetKnowledgeGraph(s, user_id, view_type) == Read(s, view_type, user_id)

\* NetworkService.get_network_graph
GetNetworkGraph(s, user_id) == Read(s, "network_graph", user_id)

\* NetworkService.find_connection_path
FindConnectionPath(s, user_id) == Read(s, "connection_path", user_id)

\* NetworkService.get_network_stats
GetNetworkStats(s, user_id) == Read(s, "network_stats", user_id)

\* GraphService.get_community_graph(community_id): no user is passed
GetCommunityGraph(s) == Read(s, "community_graph", NoUser)

\* ------------------------------------------------------------ environment
NeoDown ==
  /\ neoUp /\ neoUp' = FALSE
  /\ UNCHANGED <<rows, req, last, clock, nextId, neoConnected, neoNodes, neoEdges>>

NeoRecover ==
  /\ ~neoUp /\ neoUp' = TRUE
  /\ UNCHANGED <<rows, req, last, clock, nextId, neoConnected, neoNodes, neoEdges>>

ConnIds == {r.id : r \in rows} \cup {NoConn}

\* the connection requests served by the sessions S
Requests(S) ==
  \/ \E s \in S, a \in Users, b \in Users \cup {NoUser} :
       \E m \in MessagesOf(a) : SendBegin(s, a, b, m)
  \/ \E s \in S : SendFlush(s)
  \/ \E s \in S : SendSync(s)
  \/ \E s \in S, c \in ConnIds, u \in Users : AcceptBegin(s, c, u)
  \/ \E s \in S : AcceptFlush(s)
  \/ \E s \in S : AcceptSync(s)
  \/ \E s \in S, c \in ConnIds, u \in Users : DeclineBegin(s, c, u)
  \/ \E s \in S : DeclineFlush(s)
  \/ \E s \in S : DeclineSync(s)
  \/ \E s \in S, c \in ConnIds, u \in Users : RemoveBegin(s, c, u)
  \/ \E s \in S : RemoveFlush(s)
  \/ \E s \in S : RemoveSync(s)
  \/ \E s \in S : Commit(s)

\* the reads through the mirror and the user sync
Reads(S) ==
  \/ \E s \in S, u \in Users : SyncUser(s, u)
  \/ \E s \in S, u \in Users, v \in ViewTypes : GetKnowledgeGraph(s, u, v)
  \/ \E s \in S, u \in Users : GetNetworkGraph(s, u)
  \/ \E s \in S, u \in Users : FindConnectionPath(s, u)
  \/ \E s \in S, u \in Users : GetNetworkStats(s, u)
  \/ \E s \in S : GetCommunityGraph(s)

\* what the environment does to the two stores
Faults(S) ==
  \/ \E s \in S : CommitFail(s)
  \/ NeoDown
  \/ NeoRecover

\* requests of concurrent sessions against stores that do not fail; the graph
\* store answered at startup and holds the user nodes
Next == Requests(Slots) /\ UNCHANGED <<tables, answer, neoLinks>>

InitHealthy == Init /\ neoUp /\ neoNodes = Users

Spec == InitHealthy /\ [][Next]_vars

\* one request at a time against stores that do not fail
SeqNext == Requests({1}) /\ UNCHANGED <<tables, answer, neoLinks>>

SeqSpec == InitHealthy /\ [][SeqNext]_vars

\* one request at a time, stores that fail, reads
FaultNext == (Requests({1}) \/ Reads({1}) \/ Faults({1})) /\ UNCHANGED <<tables, answer, neoLinks>>

FaultSpec == Init /\ [][FaultNext]_vars

\* an admitted request runs on: the event loop resumes every pending await, and
\* get_db ends every session with a commit or a rollback
Progress ==
  /\ \/ SendFlush(1) \/ SendSync(1)
     \/ AcceptFlush(1) \/ AcceptSync(1)
     \/ DeclineFlush(1) \/ DeclineSync(1)
     \/ RemoveFlush(1) \/ RemoveSync(1)
     \/ Commit(1) \/ CommitFail(1)
  /\ UNCHANGED <<tables, answer, neoLinks>>

FairSpec == FaultSpec /\ WF_vars(Progress)

\* ------------------------------------------------------------ path finder
Members == 1..NumMembers

\* the unordered pairs of members, lower id first
Pairs == {p \in Members \X Members : p[1] < p[2]}

PairId(p) == (p[1] - 1) * NumMembers + p[2]

\* what the connections table holds for a pair
PairChoices == {"none", "accepted", "accepted_back", "pending"}

RowOfPair(p, choice) ==
  CASE choice = "accepted" ->
         Connection(PairId(p), p[1], p[2], "accepted", NoMessage, 1, 2)
    [] choice = "accepted_back" ->
         Connection(PairId(p), p[2], p[1], "accepted", NoMessage, 1, 2)
    [] OTHER ->
         Connection(PairId(p), p[1], p[2], "pending", NoMessage, 1, NoTime)

\* a query without ORDER BY returns its rows in an order the store chooses: K is
\* a set of <<key, row>> with distinct keys, listed by ascending or descending key
RECURSIVE InOrder(_, _)
InOrder(K, desc) ==
  IF K = {} THEN <<>>
  ELSE LET k == CHOOSE x \in K : \A y \in K : IF desc THEN y[1] <= x[1]
                                                        ELSE x[1] <= y[1]
       IN  <<k[2]>> \o InOrder(K \ {k}, desc)

\* SELECT requester_id, addressee_id FROM connections WHERE status = 'accepted'
connections_query(desc) ==
  InOrder({<<r.id, r>> : r \in {c \in rows : c.status = "accepted"}}, desc)

\* a slip: the self-join looks at the skills of the source only
shared_skills_query_source_only(source_id, target_id, desc) ==
  LET found == {<<us1[1], us2[1], us1[2]>> :
                  us1 \in {x \in tables.user_skills : x[1] = source_id},
                  us2 \in tables.user_skills}
      joined == {ss \in found :
                   /\ ss[1] # ss[2]
                   /\ <<ss[2], ss[3]>> \in tables.user_skills}
  IN  InOrder({<<(ss[1] * (NumMembers + 1) + ss[2]) * (NumMembers + 1) + ss[3], ss>> :
                 ss \in joined}, desc)

\* the self-join of user_skills on skill_id for us1.user_id in (source, target)
shared_skills_query(source_id, target_id, desc) ==
  LET found == {<<us1[1], us2[1], us1[2]>> :
                  us1 \in {x \in tables.user_skills : x[1] \in {source_id, target_id}},
                  us2 \in tables.user_skills}
      joined == {ss \in found :
                   /\ ss[1] # ss[2]
                   /\ <<ss[2], ss[3]>> \in tables.user_skills}
  IN  InOrder({<<(ss[1] * (NumMembers + 1) + ss[2]) * (NumMembers + 1) + ss[3], ss>> :
                 ss \in joined}, desc)

\* if k not in adjacency: adjacency[k] = []
Touch(adjacency, k) ==
  IF k \in DOMAIN adjacency THEN adjacency ELSE adjacency @@ (k :> <<>>)

\* adjacency[a].append((b, rel_type)); adjacency[b].append((a, rel_type))
AddBoth(adjacency, a, b, rel_type) ==
  LET adj0 == Touch(Touch(adjacency, a), b)
      adj1 == [adj0 EXCEPT ![a] = Append(@, <<b, rel_type>>)]
  IN  [adj1 EXCEPT ![b] = Append(@, <<a, rel_type>>)]

\* for conn in connections: ... "CONNECTED_TO"
RECURSIVE AddConnections(_, _)
AddConnections(adjacency, connections) ==
  IF connections = <<>> THEN adjacency
  ELSE AddConnections(AddBoth(adjacency, Head(connections).requester_id,
                              Head(connections).addressee_id, <<"CONNECTED_TO">>),
                      Tail(connections))

\* for ss in shared_skills: ... f"SHARED_SKILL_{ss.skill_name}"
RECURSIVE AddSharedSkills(_, _)
AddSharedSkills(adjacency, shared_skills) ==
  IF shared_skills = <<>> THEN adjacency
  ELSE AddSharedSkills(AddBoth(adjacency, Head(shared_skills)[1], Head(shared_skills)[2],
                               <<"SHARED_SKILL", Head(shared_skills)[3]>>),
                       Tail(shared_skills))

\* schemas.PathResult; path holds the ids of the PathNodes, edges the PathEdges
PathResult(found, path, edges, length) ==
  [found |-> found, path |-> path, edges |-> edges, length |-> length]

PathEdge(source, target, type) == [source |-> source, target |-> target, type |-> type]

\* users_by_id.get(uid): only the ids with a users row become PathNodes
RECURSIVE PathNodes(_)
PathNodes(final_path) ==
  IF final_path = <<>> THEN <<>>
  ELSE (IF Head(final_path) \in tables.users THEN <<Head(final_path)>> ELSE <<>>)
         \o PathNodes(Tail(final_path))

\* a slip: the number of nodes taken for the number of hops
PathLengthCountsNodes(final_path) == Len(final_path)

\* length=len(final_path) - 1
PathLength(final_path) == Len(final_path) - 1

\* the "Found path!" branch
FoundPath(final_path, final_edge_types) ==
  PathResult(TRUE, PathNodes(final_path),
             [i \in 1..Len(final_edge_types) |->
                PathEdge(final_path[i], final_path[i + 1], final_edge_types[i])],
             PathLength(final_path))

\* if len(path) > max_depth + 1: continue
TooDeep(path, max_depth) == Len(path) > max_depth + 1

\* the while loop over the deque, and in it the for loop over the neighbours of
\* the node popped (item): i is the next neighbour to look at
RECURSIVE Bfs(_, _, _, _, _)
RECURSIVE Neighbours(_, _, _, _, _, _, _)
Bfs(adjacency, queue, visited, target, max_depth) ==
  IF queue = <<>> THEN PathResult(FALSE, <<>>, <<>>, 0)
  ELSE LET item == Head(queue)
       IN  IF TooDeep(item.path, max_depth)
           THEN Bfs(adjacency, Tail(queue), visited, target, max_depth)
           ELSE Neighbours(adjacency, Tail(queue), visited, target, max_depth, item, 1)

Neighbours(adjacency, queue, visited, target, max_depth, item, i) ==
  LET list == IF item.current \in DOMAIN adjacency THEN adjacency[item.current] ELSE <<>>
  IN  IF i > Len(list) THEN Bfs(adjacency, queue, visited, target, max_depth)
      ELSE LET neighbor == list[i][1]
               rel_type == list[i][2]
           IN  IF neighbor = target
               THEN FoundPath(Append(item.path, neighbor), Append(item.edge_types, rel_type))
               ELSE IF neighbor \notin visited
               THEN Neighbours(adjacency,
                               Append(queue, [current |-> neighbor,
                                              path |-> Append(item.path, neighbor),
                                              edge_types |-> Append(item.edge_types, rel_type)]),
                               visited \cup {neighbor}, target, max_depth, item, i + 1)
               ELSE Neighbours(adjacency, queue, visited, target, max_depth, item, i + 1)

\* a slip: no self-path branch, the search starts at once
find_path_without_self(source_id, target_id, max_depth, desc) ==
  LET adjacency ==
        AddSharedSkills(AddConnections(<<>>, connections_query(desc)),
                        shared_skills_query(source_id, target_id, desc))
  IN  IF source_id \notin DOMAIN adjacency THEN PathResult(FALSE, <<>>, <<>>, 0)
      ELSE Bfs(adjacency,
               <<[current |-> source_id, path |-> <<source_id>>, edge_types |-> <<>>]>>,
               {source_id}, target_id, max_depth)

\* a slip: the shared-skill edges enter the adjacency lists before the connections
find_path_skills_first(source_id, target_id, max_depth, desc) ==
  IF source_id = target_id
  THEN IF source_id \in tables.users
       THEN PathResult(TRUE, <<source_id>>, <<>>, 0)
       ELSE PathResult(FALSE, <<>>, <<>>, 0)
  ELSE LET adjacency ==
             AddConnections(AddSharedSkills(<<>>,
                                shared_skills_query(source_id, target_id, desc)),
                            connections_query(desc))
       IN  IF source_id \notin DOMAIN adjacency THEN PathResult(FALSE, <<>>, <<>>, 0)
           ELSE Bfs(adjacency,
                    <<[current |-> source_id, path |-> <<source_id>>, edge_types |-> <<>>]>>,
                    {source_id}, target_id, max_depth)

\* GraphService.find_path; desc: the order in which the two queries return rows
find_path(source_id, target_id, max_depth, desc) ==
  IF source_id = target_id
  THEN IF source_id \in tables.users
       THEN PathResult(TRUE, <<source_id>>, <<>>, 0)
       ELSE PathResult(FALSE, <<>>, <<>>, 0)
  ELSE LET adjacency ==
             AddSharedSkills(AddConnections(<<>>, connections_query(desc)),
                             shared_skills_query(source_id, target_id, desc))
       IN  IF source_id \notin DOMAIN adjacency THEN PathResult(FALSE, <<>>, <<>>, 0)
           ELSE Bfs(adjacency,
                    <<[current |-> source_id, path |-> <<source_id>>, edge_types |-> <<>>]>>,
                    {source_id}, target_id, max_depth)

\* GET /graph/path/{source_id}/{target_id}?max_depth= ; a query changes no
\* table, so one query per behaviour shows all there is to see
FindPath(source_id, target_id, max_depth, desc) ==
  /\ answer = NoAnswer
  /\ answer' = [op |-> "find_path", source_id |-> source_id, target_id |-> target_id,
                max_depth |-> max_depth,
                result |-> find_path(source_id, target_id, max_depth, desc)]
  /\ UNCHANGED <<rows, req, last, clock, nextId, neoUp, neoConnected, neoNodes, neoEdges,
                 tables, neoLinks>>

\* the tables as some history of requests left them: per pair of members no row,
\* an accepted row in either direction or a pending row; one skill and its holders
PathInit ==
  /\ \E choice \in [Pairs -> PairChoices] :
        /\ Cardinality({p \in Pairs : choice[p] # "none"}) <= MaxConnections
        /\ rows = {RowOfPair(p, choice[p]) : p \in {q \in Pairs : choice[q] # "none"}}
  /\ \E holders \in SUBSET Members :
        tables = [users |-> Members, user_skills |-> holders \X {1}]
  /\ req = [s \in Slots |-> IdleReq]
  /\ last = IdleReq
  /\ clock = 0
  /\ nextId = NumMembers * NumMembers + 1
  /\ neoUp = FALSE /\ neoConnected = FALSE /\ neoNodes = {} /\ neoEdges = {}
  /\ answer = NoAnswer
  /\ neoLinks = {}

PathNext ==
  \E source_id \in Members \cup {NoUser}, target_id \in Members \cup {NoUser},
     max_depth \in 1..MaxDepth, desc \in BOOLEAN :
       FindPath(source_id, target_id, max_depth, desc)

PathSpec == PathInit /\ [][PathNext]_vars

\* ------------------------------------------------------------- similarity
\* ProfileSimilarityService: the candidates of a user from three signals, merged
\* in turn. A similarity_score is held exactly, as a number of 1/Scale units, so
\* that * 0.6, * 0.4, * 1.2, * 0.3 and / total_skills stay whole numbers.
Scale == 750

Profiles == 1..NumProfiles
Skills == 1..NumSkills
Communities == 1..NumCommunities

\* profile vectors of unit length in a plane, by their angle in steps of 60 degrees
Embeddings == {0, 1, 2}

\* 1 - (pe.embedding <=> :embedding): the cosine of the angle between the two
Cosine(a, b) ==
  LET d == IF a >= b THEN a - b ELSE b - a
  IN  CASE d = 0 -> Scale
        [] d = 1 -> Scale \div 2
        [] d = 2 -> 0 - (Scale \div 2)
        [] OTHER -> 0 - Scale

\* min_similarity: float = Query(0.5, ge=0.0, le=1.0)
MinSimilarities == {0, Scale}

Min(a, b) == IF a <= b THEN a ELSE b

\* schemas.SimilarProfile, with the fields the merge reads and writes
SimilarProfile(user_id, similarity_score, similarity_reasons) ==
  [user_id |-> user_id, similarity_score |-> similarity_score,
   similarity_reasons |-> similarity_reasons]

\* ORDER BY <count or similarity> DESC LIMIT :limit over the rows K, a set of
\* <<sort key, user id>>; rows with equal keys come in an order the store
\* chooses, here by ascending or descending user id
RECURSIVE OrderByDescLimit(_, _, _)
OrderByDescLimit(K, desc, limit) ==
  IF K = {} \/ limit = 0 THEN <<>>
  ELSE LET k == CHOOSE x \in K : \A y \in K :
                   \/ y[1] < x[1]
                   \/ y[1] = x[1] /\ (IF desc THEN y[2] <= x[2] ELSE x[2] <= y[2])
       IN  <<k>> \o OrderByDescLimit(K \ {k}, desc, limit - 1)

\* _find_semantic_similar: the rows of profile_embeddings of other users whose
\* cosine similarity reaches min_similarity
find_semantic_similar(user_id, embedding, min_similarity, limit, desc) ==
  LET found == {<<Cosine(pe[2], embedding), pe[1]>> :
                   pe \in {x \in tables.profile_embeddings : x[1] # user_id}}
      fetched == OrderByDescLimit({row \in found : row[1] >= min_similarity}, desc, limit)
  IN  [i \in 1..Len(fetched) |->
         SimilarProfile(fetched[i][2], IF fetched[i][1] # 0 THEN fetched[i][1] ELSE 0,
                        <<"embedding">>)]

\* a slip: the overlap is scaled up and not cut at 1.0
skill_score_unclamped(shared_count, total_skills) ==
  (shared_count * 6 * Scale) \div (5 * total_skills)

\* min(overlap * 1.2, 1.0) with overlap = row.shared_count / total_skills
skill_score(shared_count, total_skills) ==
  Min((shared_count * 6 * Scale) \div (5 * total_skills), Scale)

\* _find_skill_similar: the other users holding at least two of the user's skills
find_skill_similar(user_id, limit, desc) ==
  LET user_skill_ids == {us[2] : us \in {x \in tables.user_skills : x[1] = user_id}}
      shared_count(u) == Cardinality({s \in user_skill_ids : <<u, s>> \in tables.user_skills})
      found == {<<shared_count(u), u>> : u \in tables.users \ {user_id}}
      fetched == OrderByDescLimit({row \in found : row[1] >= 2}, desc, limit)
      total_skills == Cardinality(user_skill_ids)
  IN  IF user_skill_ids = {} THEN <<>>
      ELSE [i \in 1..Len(fetched) |->
              SimilarProfile(fetched[i][2], skill_score(fetched[i][1], total_skills),
                             <<"skill">>)]

\* min(row.shared_count * 0.3, 1.0)
community_score(shared_count) == Min((shared_count * 3 * Scale) \div 10, Scale)

\* _find_community_similar: the other users who are members of a community of
\* the user
find_community_similar(user_id, limit, desc) ==
  LET shared_count(u) ==
        Cardinality({c \in Communities : /\ <<u, c>> \in tables.community_members
                                         /\ <<user_id, c>> \in tables.community_members})
      found == {<<shared_count(u), u>> : u \in tables.users \ {user_id}}
      fetched == OrderByDescLimit({row \in found : row[1] >= 1}, desc, limit)
  IN  [i \in 1..Len(fetched) |->
         SimilarProfile(fetched[i][2], community_score(fetched[i][1]), <<"community">>)]

\* a slip: the two weights exchanged
combined_score_swapped(existing_score, new_score) ==
  Min((existing_score * 2 + new_score * 3) \div 5, Scale)

\* min(existing_profile.similarity_score * 0.6 + profile.similarity_score * 0.4, 1.0)
combined_score(existing_score, new_score) ==
  Min((existing_score * 3 + new_score * 2) \div 5, Scale)

\* the place of user_id in the profiles (0: not there)
PlaceOf(profiles, user_id) ==
  IF \E i \in 1..Len(profiles) : profiles[i].user_id = user_id
  THEN CHOOSE i \in 1..Len(profiles) : profiles[i].user_id = user_id
  ELSE 0

\* _merge_similarities: profiles_dict keeps the order of insertion; a profile of
\* new either updates the entry of its user or is put at the end
RECURSIVE merge_similarities(_, _)
merge_similarities(existing, new) ==
  IF new = <<>> THEN existing
  ELSE LET profile == Head(new)
           i == PlaceOf(existing, profile.user_id)
       IN  IF i # 0
           THEN merge_similarities(
                  [existing EXCEPT
                     ![i].similarity_score =
                        combined_score(@, profile.similarity_score),
                     ![i].similarity_reasons = @ \o profile.similarity_reasons],
                  Tail(new))
           ELSE merge_similarities(Append(existing, profile), Tail(new))

\* sorted(similar_profiles, key=similarity_score, reverse=True): a stable sort,
\* profiles of equal score keep their order
RECURSIVE sorted_reverse(_)
sorted_reverse(profiles) ==
  IF profiles = <<>> THEN <<>>
  ELSE LET i == CHOOSE x \in 1..Len(profiles) :
                  /\ \A y \in 1..Len(profiles) :
                        profiles[y].similarity_score <= profiles[x].similarity_score
                  /\ \A y \in 1..(x - 1) :
                        profiles[y].similarity_score < profiles[x].similarity_score
       IN  <<profiles[i]>>
             \o sorted_reverse([j \in 1..(Len(profiles) - 1) |->
                                  IF j < i THEN profiles[j] ELSE profiles[j + 1]])

\* the seen_ids loop: the first profile of each user id is kept
RECURSIVE unique_profiles(_, _)
unique_profiles(profiles, seen_ids) ==
  IF profiles = <<>> THEN <<>>
  ELSE IF Head(profiles).user_id \in seen_ids
       THEN unique_profiles(Tail(profiles), seen_ids)
       ELSE <<Head(profiles)>>
              \o unique_profiles(Tail(profiles), seen_ids \cup {Head(profiles).user_id})

\* a slip: every unique profile is returned, limit is not applied
FirstAll(profiles, limit) == profiles

\* unique_profiles[:limit]
First(profiles, limit) == SubSeq(profiles, 1, Min(limit, Len(profiles)))

\* the embedding row of the user, if there is one
EmbeddingOf(user_id) == {pe[2] : pe \in {x \in tables.profile_embeddings : x[1] = user_id}}

\* a slip: the cosine similarities are not compared with min_similarity
semantic_similar_unfiltered(user_id, min_similarity, limit, desc) ==
  IF EmbeddingOf(user_id) = {} THEN <<>>
  ELSE find_semantic_similar(user_id, CHOOSE e \in EmbeddingOf(user_id) : TRUE,
                             0 - Scale, limit, desc)

\* if user_embedding and user_embedding.embedding: semantic_similar = ...
semantic_similar(user_id, min_similarity, limit, desc) ==
  IF EmbeddingOf(user_id) = {} THEN <<>>
  ELSE find_semantic_similar(user_id, CHOOSE e \in EmbeddingOf(user_id) : TRUE,
                             min_similarity, limit, desc)

\* ProfileSimilarityService.compute_user_similarities; desc: the order in which
\* the three queries return rows of equal rank
compute_user_similarities(user_id, min_similarity, limit, desc) ==
  LET with_skill == merge_similarities(semantic_similar(user_id, min_similarity, limit, desc),
                                       find_skill_similar(user_id, limit, desc))
      similar_profiles == merge_similarities(with_skill,
                                             find_community_similar(user_id, limit, desc))
      unique == unique_profiles(sorted_reverse(similar_profiles), {})
  IN  [profiles |-> First(unique, limit), total |-> Len(unique)]

\* GET /graph/similar/{user_id}?min_similarity=&limit=
ComputeSimilarities(user_id, min_similarity, limit, desc) ==
  /\ answer = NoAnswer
  /\ answer' = [op |-> "compute_user_similarities", user_id |-> user_id,
                min_similarity |-> min_similarity, limit |-> limit, desc |-> desc,
                result |-> compute_user_similarities(user_id, min_similarity, limit, desc)]
  /\ UNCHANGED <<rows, req, last, clock, nextId, neoUp, neoConnected, neoNodes, neoEdges,
                 tables, neoLinks>>

\* the tables as the profile pages left them: per user the first so many skills
\* and communities, and no embedding row or one of the Embeddings
SimInit ==
  /\ \E skills \in [Profiles -> 0..NumSkills], joined \in [Profiles -> 0..NumCommunities],
        embedded \in [Profiles -> Embeddings \cup {-1}] :
        tables = [users |-> Profiles,
                  user_skills |-> {us \in Profiles \X Skills : us[2] <= skills[us[1]]},
                  community_members |->
                     {cm \in Profiles \X Communities : cm[2] <= joined[cm[1]]},
                  profile_embeddings |->
                     {pe \in Profiles \X Embeddings : pe[2] = embedded[pe[1]]}]
  /\ rows = {}
  /\ req = [s \in Slots |-> IdleReq]
  /\ last = IdleReq
  /\ clock = 0
  /\ nextId = 1
  /\ neoUp = FALSE /\ neoConnected = FALSE /\ neoNodes = {} /\ neoEdges = {}
  /\ answer = NoAnswer
  /\ neoLinks = {}

SimNext ==
  \E user_id \in Profiles, min_similarity \in MinSimilarities, limit \in 1..MaxLimit,
     desc \in BOOLEAN :
       ComputeSimilarities(user_id, min_similarity, limit, desc)

SimSpec == SimInit /\ [][SimNext]_vars

\* --------------------------------------------------------- graph assembly
\* GraphService.get_knowledge_graph over the mirror: (:User) nodes neoNodes,
\* [:CONNECTED_TO] relationships neoEdges and the affiliations neoLinks of users
\* with (:Skill), (:Community) and (:Event) nodes. Every mirrored user shows in
\* the graph (show_in_graph).
GraphSkills == {1, 2}

\* limit: int = Query(100, ge=1, le=500)
LargestLimit == 500

Limits == (1..MaxGraphLimit) \cup {LargestLimit}

\* str(node.get("id")) with the label of the node
NodeId(type, n) == <<type, n>>

\* rel.get("startNode") of a mapping without that key
NoNode == NodeId("none", 0)

NoCluster == -1

\* schemas.GraphNode
GraphNode(id, type) == [id |-> id, type |-> type, cluster |-> NoCluster]

\* _user_to_node
user_to_node(user) == GraphNode(NodeId("user", user), "user")

\* schemas.GraphEdge
GraphEdge(source, target, type) == [source |-> source, target |-> target, type |-> type]

\* schemas.KnowledgeGraph with its GraphMetadata
KnowledgeGraph(nodes, edges, total_nodes, total_edges, view_type) ==
  [nodes |-> nodes, edges |-> edges,
   metadata |-> [total_nodes |-> total_nodes, total_edges |-> total_edges,
                 view_type |-> view_type]]

\* _empty_graph
empty_graph(view_type) == KnowledgeGraph(<<>>, <<>>, 0, 0, view_type)

\* an unhandled exception of the service method
Raised(exception) == [error |-> exception]

\* the [:HAS_SKILL], [:MEMBER_OF], [:ATTENDING] relationships of the mirror
Link(src, type, dst) == [src |-> src, type |-> type, dst |-> dst]

AffiliationsOf(user) ==
  {Link(user, "HAS_SKILL", NodeId("skill", s)) : s \in GraphSkills}
    \cup {Link(user, "MEMBER_OF", NodeId("community", 1)),
          Link(user, "ATTENDING", NodeId("event", 1))}

\* the relationships with status accepted, as the WHERE clauses select them
AcceptedRels == {e \in neoEdges : e.status = "accepted"}

OtherEnd(e, n) == IF e.src = n THEN e.dst ELSE e.src

\* the paths of k relationships that extend the paths P by one more: a path of
\* a MATCH walks a relationship in either direction and never twice
ExtendPaths(P) ==
  {[rels |-> p.rels \cup {e}, end |-> OtherEnd(e, p.end)] :
     <<p, e>> \in {pe \in P \X AcceptedRels :
                     /\ pe[1].end \in {pe[2].src, pe[2].dst}
                     /\ pe[2] \notin pe[1].rels}}

\* MATCH path = (center)-[:CONNECTED_TO*1..depth]-(connected) WHERE all accepted
RECURSIVE PathsOfLength(_, _)
PathsOfLength(center, k) ==
  IF k = 0 THEN {[rels |-> {}, end |-> center]}
  ELSE ExtendPaths(PathsOfLength(center, k - 1))

MatchedPaths(center, depth) ==
  IF center \in neoNodes
  THEN UNION {PathsOfLength(center, k) : k \in 1..depth}
  ELSE {}

\* the rows of the query of _get_personal_graph. allRels is a grouping key of the
\* first two WITH clauses, so allNodes is [center, connected] path by path and
\* [0..$limit] cuts that list; the last WITH groups the paths by their nodes
personal_rows(center, depth, limit, desc) ==
  LET paths == MatchedPaths(center, depth)
      nodes_of(p) == SubSeq(IF p.end = center THEN <<center>> ELSE <<center, p.end>>,
                            1, Min(limit, IF p.end = center THEN 1 ELSE 2))
      keys == {nodes_of(p) : p \in paths}
  IN  InOrder({<<IF Len(k) = 1 THEN 0 ELSE k[2],
                 [nodes |-> k, rels |-> UNION {p.rels : p \in {q \in paths : nodes_of(q) = k}}]>> :
                 k \in keys}, desc)

\* the node loop of _build_graph_from_neo4j: seen_nodes over all rows
RECURSIVE seen_nodes(_, _)
seen_nodes(result, seen) ==
  IF result = <<>> THEN <<>>
  ELSE LET new == SelectSeq(Head(result).nodes, LAMBDA n : n \notin seen)
       IN  new \o seen_nodes(Tail(result), seen \cup {new[i] : i \in 1..Len(new)})

\* _build_graph_from_neo4j. rels_as is what the driver hands over for a
\* relationship: a tuple (start node, type, end node), which has no get, or a
\* mapping of its properties, which has no startNode and no endNode
build_graph_from_neo4j(result, center_id, view_type, rels_as) ==
  IF result = <<>> THEN empty_graph(view_type)
  ELSE IF rels_as = "tuple" /\ \E i \in 1..Len(result) : result[i].rels # {}
  THEN Raised("AttributeError")
  ELSE LET users == seen_nodes(result, {})
           nodes == [i \in 1..Len(users) |-> user_to_node(users[i])]
           edges == IF \E i \in 1..Len(result) : result[i].rels # {}
                    THEN <<GraphEdge(NoNode, NoNode, "CONNECTED_TO")>>
                    ELSE <<>>
       IN  KnowledgeGraph(nodes, edges, Len(nodes), Len(edges), view_type)

\* _get_personal_graph
get_personal_graph(user_id, depth, limit, desc, rels_as) ==
  build_graph_from_neo4j(personal_rows(user_id, depth, limit, desc), user_id,
                         "personal", rels_as)

\* the targets of the affiliations of one type of the center, in collect order
Collected(center, type, desc) ==
  InOrder({<<l.dst[2], l.dst>> : l \in {x \in neoLinks : x.src = center /\ x.type = type}},
          desc)

\* a slip: the node list is cut from its end
LastNodes(nodes, limit) ==
  SubSeq(nodes, Len(nodes) - Min(limit, Len(nodes)) + 1, Len(nodes))

\* nodes[:limit]
FirstNodes(nodes, limit) == SubSeq(nodes, 1, Min(limit, Len(nodes)))

\* _get_ecosystem_graph; depth is a parameter the method does not read
get_ecosystem_graph(user_id, depth, filters, limit, desc) ==
  IF user_id \notin neoNodes THEN empty_graph("ecosystem")
  ELSE
  LET center == NodeId("user", user_id)
      connectedUsers ==
        InOrder({<<u, u>> : u \in {OtherEnd(e, user_id) :
                                      e \in {x \in AcceptedRels : user_id \in {x.src, x.dst}}}},
                desc)
      skills == Collected(user_id, "HAS_SKILL", desc)
      communities == Collected(user_id, "MEMBER_OF", desc)
      events == Collected(user_id, "ATTENDING", desc)
      nodes == <<user_to_node(user_id)>>
                 \o [i \in 1..Len(connectedUsers) |-> user_to_node(connectedUsers[i])]
                 \o [i \in 1..Len(skills) |-> GraphNode(skills[i], "skill")]
                 \o [i \in 1..Len(communities) |-> GraphNode(communities[i], "community")]
                 \o [i \in 1..Len(events) |-> GraphNode(events[i], "event")]
      edges == [i \in 1..Len(connectedUsers) |->
                  GraphEdge(center, NodeId("user", connectedUsers[i]), "CONNECTED_TO")]
                 \o [i \in 1..Len(skills) |-> GraphEdge(center, skills[i], "HAS_SKILL")]
                 \o [i \in 1..Len(communities) |->
                       GraphEdge(center, communities[i], "MEMBER_OF")]
                 \o [i \in 1..Len(events) |-> GraphEdge(center, events[i], "ATTENDING")]
      kept == IF filters # {}
              THEN SelectSeq(nodes, LAMBDA n : n.type \in filters \/ n.id = center)
              ELSE nodes
      node_ids == {kept[i].id : i \in 1..Len(kept)}
      kept_edges == IF filters # {}
                    THEN SelectSeq(edges, LAMBDA e : e.source \in node_ids /\ e.target \in node_ids)
                    ELSE edges
  IN  KnowledgeGraph(FirstNodes(kept, limit), kept_edges, Len(kept), Len(kept_edges),
                     "ecosystem")

\* _get_discover_graph: MATCH (u:User) ... RETURN u, skills, communities LIMIT
get_discover_graph(user_id, limit, desc) ==
  LET found == InOrder({<<u, u>> : u \in neoNodes}, desc)
      result == SubSeq(found, 1, Min(limit, Len(found)))
      nodes == [i \in 1..Len(result) |-> user_to_node(result[i])]
  IN  KnowledgeGraph(nodes, <<>>, Len(nodes), 0, "discover")

\* GraphService.get_knowledge_graph; desc: the order in which the store lists
\* what a query collects
get_knowledge_graph(user_id, view_type, depth, filters, limit, desc, rels_as) ==
  IF ~is_connected THEN empty_graph(view_type)
  ELSE CASE view_type = "personal" ->
              get_personal_graph(user_id, depth, limit, desc, rels_as)
         [] view_type = "ecosystem" ->
              get_ecosystem_graph(user_id, depth, filters, limit, desc)
         [] view_type = "discover" -> get_discover_graph(user_id, limit, desc)
         [] OTHER -> empty_graph(view_type)

\* filters.node_types as the endpoint builds it from node_types: none, or some
FilterChoices == {{}, {"skill"}, {"user", "event"}}

\* GraphService.get_knowledge_graph asked for one view of one user
GetKnowledgeGraphView(user_id, view_type, depth, filters, limit, desc, rels_as) ==
  /\ answer = NoAnswer
  /\ answer' = [op |-> "get_knowledge_graph", user_id |-> user_id, view_type |-> view_type,
                depth |-> depth, filters |-> filters, limit |-> limit,
                result |-> get_knowledge_graph(user_id, view_type, depth, filters, limit,
                                               desc, rels_as)]
  /\ UNCHANGED <<rows, req, last, clock, nextId, neoUp, neoConnected, neoNodes, neoEdges,
                 tables, neoLinks>>

\* the mirror as seeding and earlier requests left it: some of the registered
\* users have a node, a pair of them no relationship, an accepted or a pending
\* one, and a user either no affiliation or all of AffiliationsOf
GraphInit ==
  /\ neoNodes \in SUBSET Profiles
  /\ \E choice \in [{p \in Profiles \X Profiles : p[1] < p[2]} -> {"none", "accepted", "pending"}] :
        /\ \A p \in DOMAIN choice : choice[p] # "none" => (p[1] \in neoNodes /\ p[2] \in neoNodes)
        /\ neoEdges = {Edge(p[1], p[2], choice[p], NoMessage) :
                         p \in {q \in DOMAIN choice : choice[q] # "none"}}
  /\ \E holders \in SUBSET neoNodes : neoLinks = UNION {AffiliationsOf(u) : u \in holders}
  /\ neoUp = TRUE /\ neoConnected = TRUE
  /\ tables = [users |-> Profiles]
  /\ rows = {}
  /\ req = [s \in Slots |-> IdleReq]
  /\ last = IdleReq
  /\ clock = 0
  /\ nextId = 1
  /\ answer = NoAnswer

GraphNext ==
  \E user_id \in Profiles, view_type \in ViewTypes, depth \in 1..MaxDepth,
     filters \in FilterChoices, limit \in Limits, desc \in BOOLEAN,
     rels_as \in {"tuple", "mapping"} :
       GetKnowledgeGraphView(user_id, view_type, depth, filters, limit, desc, rels_as)

GraphSpec == GraphInit /\ [][GraphNext]_vars

\* --------------------------------------------------------------- clustering
\* GraphService.get_clustered_graph: the ecosystem view of the center, its user
\* nodes grouped by a skill each of them holds in the store.
Algorithms == {"louvain", "kmeans", "skill_based"}

\* min_cluster_size: Query(3, ge=2, le=20)
MinClusterSizes == {2, 3}

ClusterLimits == {MaxGraphLimit, LargestLimit}

\* the label of a user whose skill set is empty
Other == 0

\* the skills a member may hold in the store: none, the first, or all
SkillKits == {{}, {1}, GraphSkills}

Cluster(id, label, node_ids) ==
  [id |-> id, label |-> label, node_ids |-> node_ids, size |-> Len(node_ids)]

ClusteredGraph(nodes, edges, metadata, clusters) ==
  [nodes |-> nodes, edges |-> edges, metadata |-> metadata, clusters |-> clusters]

Items(seq) == {seq[i] : i \in 1..Len(seq)}

\* user_ids = [n.id for n in base_graph.nodes if n.type == "user"]
graph_user_ids(nodes) ==
  LET users == SelectSeq(nodes, LAMBDA n : n.type = "user")
  IN  [i \in 1..Len(users) |-> users[i].id]

\* SELECT us.user_id, s.name FROM user_skills us JOIN skills s ...
\* WHERE us.user_id = ANY(:user_ids), as rows <<str(user_id), skill_name>>
skills_query(user_ids, desc) ==
  InOrder({<<r[1] * (NumSkills + 1) + r[2], <<NodeId("user", r[1]), r[2]>>>> :
             r \in {x \in tables.user_skills : NodeId("user", x[1]) \in Items(user_ids)}},
          desc)

\* the keys of a dict, in the order of their first insertion
RECURSIVE first_seen(_, _)
first_seen(fetched, keys) ==
  IF fetched = <<>> THEN keys
  ELSE first_seen(Tail(fetched),
                  IF Head(fetched)[1] \in Items(keys) THEN keys
                  ELSE Append(keys, Head(fetched)[1]))

\* user_skill_map, as its items <<uid, skills>> in insertion order
user_skill_map(fetched) ==
  LET keys == first_seen(fetched, <<>>)
  IN  [i \in 1..Len(keys) |->
         <<keys[i], {r[2] : r \in {x \in Items(fetched) : x[1] = keys[i]}}>>]

\* list(skills)[0] if skills else "Other": a set lists its elements in an order
\* of its own, here the larger name first for the users in seconds
primary_skill(uid, skills, seconds) ==
  IF skills = {} THEN Other
  ELSE CHOOSE s \in skills :
         \A t \in skills : IF uid \in seconds THEN t <= s ELSE s <= t

\* a slip: a user joins the group of every skill it holds
RECURSIVE skill_clusters_every_skill(_, _, _)
skill_clusters_every_skill(items, seconds, groups) ==
  IF items = <<>> THEN groups
  ELSE LET uid == Head(items)[1]
           held == Head(items)[2]
           joined == [i \in 1..Len(groups) |->
                        IF groups[i][1] \in held
                        THEN <<groups[i][1], Append(groups[i][2], uid)>>
                        ELSE groups[i]]
           fresh == InOrder({<<s, <<s, <<uid>>>>>> :
                               s \in {t \in held : \A i \in 1..Len(groups) : groups[i][1] # t}},
                            FALSE)
       IN  skill_clusters_every_skill(Tail(items), seconds, joined \o fresh)

\* skill_clusters, as its items <<skill, users>> in insertion order
RECURSIVE skill_clusters(_, _, _)
skill_clusters(items, seconds, groups) ==
  IF items = <<>> THEN groups
  ELSE LET uid == Head(items)[1]
           primary == primary_skill(uid, Head(items)[2], seconds)
           at == {i \in 1..Len(groups) : groups[i][1] = primary}
       IN  skill_clusters(Tail(items), seconds,
             IF at = {} THEN Append(groups, <<primary, <<uid>>>>)
             ELSE [i \in 1..Len(groups) |->
                     IF i \in at THEN <<primary, Append(groups[i][2], uid)>>
                     ELSE groups[i]])

\* a slip: the groups are not filtered by size
valid_clusters_unfiltered(groups, min_cluster_size) == groups

\* {skill: users for ... if len(users) >= min_cluster_size}
valid_clusters(groups, min_cluster_size) ==
  SelectSeq(groups, LAMBDA g : Len(g[2]) >= min_cluster_size)

\* for i, (skill, users) in enumerate(valid_clusters.items()): Cluster(id=i, ...)
clusters_of(valid) ==
  [i \in 1..Len(valid) |-> Cluster(i - 1, valid[i][1], valid[i][2])]

\* node_cluster_map[uid] = cluster_id, a later cluster writing over an earlier
node_cluster_map(clusters) ==
  [uid \in UNION {Items(clusters[i].node_ids) : i \in 1..Len(clusters)} |->
     clusters[CHOOSE i \in 1..Len(clusters) :
                /\ uid \in Items(clusters[i].node_ids)
                /\ \A j \in 1..Len(clusters) :
                      uid \in Items(clusters[j].node_ids) => j <= i].id]

\* get_clustered_graph; algorithm is a parameter the method does not read
get_clustered_graph(user_id, algorithm, min_cluster_size, limit, desc, seconds) ==
  LET base_graph == get_knowledge_graph(user_id, "ecosystem", 2, {}, limit, desc, "mapping")
      user_ids == graph_user_ids(base_graph.nodes)
      fetched == skills_query(user_ids, desc)
      groups == skill_clusters(user_skill_map(fetched), seconds, <<>>)
      clusters == clusters_of(valid_clusters(groups, min_cluster_size))
      assigned == node_cluster_map(clusters)
      updated_nodes == [i \in 1..Len(base_graph.nodes) |->
                          IF base_graph.nodes[i].id \in DOMAIN assigned
                          THEN [base_graph.nodes[i] EXCEPT
                                  !.cluster = assigned[base_graph.nodes[i].id]]
                          ELSE base_graph.nodes[i]]
  IN  IF base_graph.nodes = <<>>
      THEN ClusteredGraph(<<>>, <<>>, base_graph.metadata, <<>>)
      ELSE IF user_ids = <<>>
      THEN ClusteredGraph(base_graph.nodes, base_graph.edges, base_graph.metadata, <<>>)
      ELSE ClusteredGraph(updated_nodes, base_graph.edges,
                          [total_nodes |-> Len(updated_nodes),
                           total_edges |-> Len(base_graph.edges),
                           view_type |-> "clustered"],
                          clusters)

\* the users whose skill set has more than one element and so an order to choose
SeveralSkills == {NodeId("user", u) : u \in {m \in Members :
                     Cardinality({r \in tables.user_skills : r[1] = m}) > 1}}

GetClusteredGraph(user_id, algorithm, min_cluster_size, limit, desc, seconds) ==
  /\ answer = NoAnswer
  /\ answer' = [op |-> "get_clustered_graph", user_id |-> user_id,
                algorithm |-> algorithm, min_cluster_size |-> min_cluster_size,
                limit |-> limit,
                result |-> get_clustered_graph(user_id, algorithm, min_cluster_size,
                                               limit, desc, seconds)]
  /\ UNCHANGED <<rows, req, last, clock, nextId, neoUp, neoConnected, neoNodes, neoEdges,
                 tables, neoLinks>>

\* every member is mirrored, member 1 is connected to any of the others, and a
\* member holds one of the skill kits in the store; a member with skills has its
\* affiliations in the mirror
ClusterInit ==
  /\ neoNodes = Members
  /\ \E linked \in SUBSET {p \in Pairs : p[1] = 1} :
        /\ Cardinality(linked) <= MaxConnections
        /\ neoEdges = {Edge(p[1], p[2], "accepted", NoMessage) : p \in linked}
  /\ \E held \in [Members -> SkillKits] :
        /\ tables = [users |-> Members,
                     user_skills |-> {r \in Members \X GraphSkills : r[2] \in held[r[1]]}]
        /\ neoLinks = UNION {AffiliationsOf(u) : u \in {m \in Members : held[m] # {}}}
  /\ neoUp = TRUE /\ neoConnected = TRUE
  /\ rows = {}
  /\ req = [s \in Slots |-> IdleReq]
  /\ last = IdleReq
  /\ clock = 0
  /\ nextId = 1
  /\ answer = NoAnswer

ClusterNext ==
  \E user_id \in Members, algorithm \in Algorithms, min_cluster_size \in MinClusterSizes,
     limit \in ClusterLimits, desc \in BOOLEAN, seconds \in SUBSET SeveralSkills :
       GetClusteredGraph(user_id, algorithm, min_cluster_size, limit, desc, seconds)

ClusterSpec == ClusterInit /\ [][ClusterNext]_vars

\* ------------------------------------------------------------- properties
Active == {"pending", "accepted"}

\* the active rows of R between users a and b, in either direction
ActiveRows(R, a, b) ==
  {r \in R : r.status \in Active /\ {r.requester_id, r.addressee_id} = {a, b}}

\* r is a sendRequest that revived a declined row and was answered with success
RevivedBy(r) == r.op = "send" /\ r.outcome = "ok" /\ r.wkind = "update"

\* the reads that go through the mirror
MirrorReads ==
  ViewTypes \cup {"network_graph", "connection_path", "network_stats", "community_graph"}

\* C1: when sendRequest(A,B) and sendRequest(B,A) ran concurrently, neither
\* having found a row between A and B, then once both have finished exactly one
\* active (pending or accepted) row exists for the unordered pair {A,B}.
\* (last and last' are two requests answered one right after the other with no
\* request admitted in between, so the second was in flight with the first.)
C1_CrossedRequestsLeaveOneRow ==
  [][ ( /\ last.op = "send" /\ last.pc = "done" /\ last.seen = {}
        /\ last'.op = "send" /\ last'.pc = "done" /\ last'.seen = {}
        /\ last'.n # last.n
        /\ last.actor # last.target
        /\ last'.actor = last.target /\ last'.target = last.actor )
      => Cardinality(ActiveRows(rows', last.actor, last.target)) = 1 ]_vars

\* C2: of two concurrent sendRequest calls that both loaded the same declined
\* row, at most one revives it: the two never both end in success.
C2_OneRevivalSucceeds ==
  [][ ~( /\ RevivedBy(last) /\ RevivedBy(last')
         /\ last'.n # last.n
         /\ last'.seen = last.seen ) ]_vars

\* C3: a mirror write that raises is swallowed for every transition: the request
\* goes on to its commit and, unless the commit itself fails, is answered with
\* success; it is never ended by the mirror's error.
C3_MirrorFailureSwallowed ==
  /\ \A s \in Slots : req[s].sync = "raised" => req[s].pc = "commit"
  /\ last.sync = "raised" => last.outcome \in {"ok", "CommitError"}

\* C4: the mirror write of a transition is issued only after the store write of
\* that transition is committed: no request has written the mirror while its own
\* store write is uncommitted, and none that wrote the mirror was rolled back.
C4_SyncAfterCommit ==
  /\ \A s \in Slots : req[s].sync = "applied" => ~Uncommitted(s)
  /\ last.sync = "applied" => last.outcome = "ok"

\* C5: after any sequence of connection transitions with the mirror reachable,
\* the mirror holds at most one CONNECTED_TO edge between any two users.
C5_OneEdgePerPair ==
  \A e1 \in neoEdges, e2 \in neoEdges :
     {e1.src, e1.dst} = {e2.src, e2.dst} => e1 = e2

\* C6: a read through the mirror that finds the graph store unreachable, from
\* startup on or only since a successful connect, returns the empty result and
\* never an error.
C6_ReadsDegradeToEmpty ==
  (last.op \in MirrorReads /\ last.pc = "done" /\ ~last.up)
     => last.outcome = "empty"

\* a committed active row is mirrored by an edge between its users of its status
Reflected(r) ==
  \E e \in neoEdges : /\ {e.src, e.dst} = {r.requester_id, r.addressee_id}
                      /\ e.status = r.status

MirrorConsistent == \A r \in rows : r.status \in Active => Reflected(r)

\* C7: if the mirror holds the user nodes and from some point on the graph store
\* stays reachable to the connected client, then eventually, and from then on,
\* every committed active connection is reflected in the mirror with its status,
\* also when the store was unreachable while the transition committed.
C7_EventuallyConsistent ==
  ([](neoNodes = Users) /\ <>[](neoUp /\ neoConnected)) => <>[]MirrorConsistent

\* C8: accept on an existing pending row by an actor who is not its addressee
\* fails, with an error other than the NotFound answer given when no pending row
\* exists, and leaves the row as it was.
C8_AcceptByNonAddresseeIsDenied ==
  ( /\ last.op = "accept" /\ last.pc = "done"
    /\ \E r \in last.byId : r.status = "pending" /\ r.addressee_id # last.actor )
  => /\ last.outcome \notin {"ok", "Connection request not found"}
     /\ last.byId \subseteq rows

\* C9: a sendRequest that succeeds on a declined row leaves that same row, and no
\* other between the pair, pending in the direction of the new request, with
\* requested_at reset and responded_at cleared.
C9_RevivalTakesNewDirection ==
  RevivedBy(last) =>
    \E c \in last.seen :
       ExistingConnections(last.actor, last.target)
         = {Connection(c.id, last.actor, last.target, "pending", last.msg,
                       last.wrow.requested_at, NoTime)}
       /\ last.wrow.requested_at > c.requested_at

\* C10: a sendRequest that finds an active connection between the two users, in
\* either direction, fails with the Conflict of its status ("Already connected",
\* "Connection request already pending"), writes no row and no mirror edge.
C10_ActiveConnectionConflicts ==
  ( /\ last.op = "send" /\ last.pc = "done"
    /\ \E r \in last.seen : r.status \in Active )
  => /\ last.outcome \in {"Already connected", "Connection request already pending"}
     /\ last.outcome = "Already connected" <=> (\E r \in last.seen : r.status = "accepted")
     /\ last.wkind = "none" /\ last.sync = "none"
     /\ last.seen \subseteq rows

\* the row with r's id is gone after the step
Deleted(r) == ~\E r2 \in rows' : r2.id = r.id

\* C11: remove deletes a row, and writes the mirror delete, only when the row is
\* accepted and the actor is its requester or addressee; a remove that finds the
\* id on no accepted row of the actor fails with "Connection not found" and
\* leaves the rows and the mirror as they were.
C11_RemoveOnlyAcceptedByParticipant ==
  [][ /\ \A r \in rows : Deleted(r) =>
            /\ r.status = "accepted"
            /\ last'.op = "remove" /\ last'.target = r.id /\ last'.sync # "none"
            /\ last'.actor \in {r.requester_id, r.addressee_id}
      /\ ( /\ last' # last /\ last'.op = "remove" /\ last'.pc = "done"
           /\ ~\E r \in last'.byId :
                 /\ r.status = "accepted"
                 /\ last'.actor \in {r.requester_id, r.addressee_id} )
         => /\ last'.outcome = "Connection not found"
            /\ rows' = rows /\ neoEdges' = neoEdges ]_vars

Participants(r) == {r.requester_id, r.addressee_id}

\* C12: in every execution a row changes status only along the lifecycle: created as
\* pending by sendRequest; pending -> accepted / declined only by accept /
\* decline of its addressee; declined -> pending only by sendRequest of a
\* participant; deleted only by remove of a participant while it is accepted.
C12_LifecycleTransitions ==
  [][ /\ \A r2 \in rows' : (~\E r \in rows : r.id = r2.id) =>
            /\ r2.status = "pending"
            /\ last'.op = "send" /\ last'.actor = r2.requester_id
      /\ \A r \in rows, r2 \in rows' : (r.id = r2.id /\ r.status # r2.status) =>
            \/ /\ r.status = "pending" /\ r2.status = "accepted"
               /\ last'.op = "accept" /\ last'.actor = r.addressee_id
            \/ /\ r.status = "pending" /\ r2.status = "declined"
               /\ last'.op = "decline" /\ last'.actor = r.addressee_id
            \/ /\ r.status = "declined" /\ r2.status = "pending"
               /\ last'.op = "send" /\ last'.actor \in Participants(r)
      /\ \A r \in rows : Deleted(r) =>
            /\ r.status = "accepted"
            /\ last'.op = "remove" /\ last'.actor \in Participants(r) ]_vars

\* ---------------------------------------------------- path finder properties
\* the merged undirected graph of a search: the accepted connections plus the
\* shared-skill edges incident to the source or the target
MergedEdges(source_id, target_id) ==
  {{r.requester_id, r.addressee_id} : r \in {c \in rows : c.status = "accepted"}}
    \cup {{u, v} : <<u, v>> \in
             {uv \in {source_id, target_id} \X Members :
                /\ uv[1] # uv[2]
                /\ \E us1 \in tables.user_skills, us2 \in tables.user_skills :
                      us1[1] = uv[1] /\ us2[1] = uv[2] /\ us1[2] = us2[2]}}

\* the nodes within k hops of the nodes S
RECURSIVE Within(_, _, _)
Within(E, S, k) ==
  IF k = 0 THEN S
  ELSE Within(E, S \cup {v \in Members : \E u \in S : {u, v} \in E}, k - 1)

SearchDone == answer.op = "find_path"

\* C13 as stated: for every source id equal to the target id and every maxDepth,
\* findPath returns found=true, length=0, a path of that one node and no edges.
C13_SelfPathForEveryId ==
  (SearchDone /\ answer.source_id = answer.target_id)
     => answer.result = PathResult(TRUE, <<answer.source_id>>, <<>>, 0)

\* C13 amended: for every source id that is the id of an existing user and equals
\* the target id, and every maxDepth, findPath returns found=true, length=0, a
\* path of that one node and no edges, whatever connections or skills exist; when
\* no user has that id it returns found=false, length=0 and an empty path.
C13_SelfPathForEveryUser ==
  (SearchDone /\ answer.source_id = answer.target_id)
     => answer.result = IF answer.source_id \in tables.users
                        THEN PathResult(TRUE, <<answer.source_id>>, <<>>, 0)
                        ELSE PathResult(FALSE, <<>>, <<>>, 0)

C13_Witness ==
  /\ SearchDone /\ answer.source_id = answer.target_id
  /\ answer.source_id \in tables.users
  /\ answer.result.found /\ Len(answer.result.path) = 1
  /\ \E r \in rows : r.status = "accepted" /\ answer.source_id \in Participants(r)
  /\ \E us \in tables.user_skills : us[1] = answer.source_id

C15_RespectsMaxDepth ==
  (SearchDone /\ answer.source_id # answer.target_id)
     => /\ answer.result.found => answer.result.length <= answer.max_depth
        /\ answer.target_id \notin Within(MergedEdges(answer.source_id, answer.target_id),
                                          {answer.source_id}, answer.max_depth)
             => (~answer.result.found /\ answer.result.length = 0)

\* C16: when an accepted connection exists between source and target, findPath
\* with any maxDepth >= 1 returns found=true, length 1 and the single edge
\* CONNECTED_TO, also when the two share a skill or are linked through others.
C16_DirectConnectionWins ==
  ( /\ SearchDone /\ answer.source_id # answer.target_id /\ answer.max_depth >= 1
    /\ \E r \in rows : /\ r.status = "accepted"
                       /\ Participants(r) = {answer.source_id, answer.target_id} )
  => /\ answer.result.found /\ answer.result.length = 1
     /\ answer.result.path = <<answer.source_id, answer.target_id>>
     /\ answer.result.edges
          = <<PathEdge(answer.source_id, answer.target_id, <<"CONNECTED_TO">>)>>

C16_Witness ==
  /\ SearchDone /\ answer.result.found /\ answer.result.length = 1
  /\ answer.result.edges[1].type = <<"CONNECTED_TO">>
  /\ \E r \in rows : /\ r.status = "accepted"
                     /\ Participants(r) = {answer.source_id, answer.target_id}
  /\ <<answer.source_id, 1>> \in tables.user_skills
  /\ <<answer.target_id, 1>> \in tables.user_skills
  /\ \E m \in Members \ {answer.source_id, answer.target_id} :
        <<m, 1>> \in tables.user_skills

\* ---------------------------------------------------- similarity properties
SimDone == answer.op = "compute_user_similarities"

Returned == answer.result.profiles

ReturnedIds == {Returned[i].user_id : i \in 1..Len(Returned)}

\* what each signal gave for the query answered
SemanticSignal ==
  semantic_similar(answer.user_id, answer.min_similarity, answer.limit, answer.desc)

SkillSignal == find_skill_similar(answer.user_id, answer.limit, answer.desc)

CommunitySignal == find_community_similar(answer.user_id, answer.limit, answer.desc)

Contains(signal, u) == \E i \in 1..Len(signal) : signal[i].user_id = u

ScoreIn(signal, u) ==
  IF Contains(signal, u)
  THEN <<signal[CHOOSE i \in 1..Len(signal) : signal[i].user_id = u].similarity_score>>
  ELSE <<>>

\* the scores of u in the signals that contain it, in the order embedding,
\* skill, community
SignalScores(u) ==
  ScoreIn(SemanticSignal, u) \o ScoreIn(SkillSignal, u) \o ScoreIn(CommunitySignal, u)

Candidates == {u \in tables.users : SignalScores(u) # <<>>}

\* existing * 0.6 + incoming * 0.4, at most 1.0, signal after signal
RECURSIVE Fold(_, _)
Fold(existing, incoming) ==
  IF incoming = <<>> THEN existing
  ELSE Fold(Min((existing * 6 + Head(incoming) * 4) \div 10, Scale), Tail(incoming))

FoldedScore(u) == Fold(Head(SignalScores(u)), Tail(SignalScores(u)))

SharedSkills(u) ==
  {s \in Skills : <<u, s>> \in tables.user_skills /\ <<answer.user_id, s>> \in tables.user_skills}

TotalUserSkills == Cardinality({s \in Skills : <<answer.user_id, s>> \in tables.user_skills})

C18_ScoreIsFoldOfSignals ==
  SimDone => \A i \in 1..Len(Returned) :
                LET u == Returned[i].user_id
                    shared == Cardinality(SharedSkills(u))
                IN  /\ u \in Candidates
                    /\ Returned[i].similarity_score = FoldedScore(u)
                    /\ (Contains(SkillSignal, u) /\ Len(SignalScores(u)) = 1)
                         => /\ Returned[i].similarity_score
                                 = Min((shared * 12 * Scale) \div (10 * TotalUserSkills), Scale)
                            /\ (shared = 2 /\ TotalUserSkills = 2)
                                 => Returned[i].similarity_score = Scale

\* one returned profile got three different signal scores, another one was
\* found by the skill signal alone with 2 shared skills out of 2
C18_Witness ==
  /\ SimDone
  /\ \E i \in 1..Len(Returned) :
        LET sc == SignalScores(Returned[i].user_id)
        IN  Len(sc) = 3 /\ sc[1] # sc[2] /\ sc[2] # sc[3] /\ sc[1] # sc[3]
  /\ \E i \in 1..Len(Returned) :
        /\ SignalScores(Returned[i].user_id) = <<Scale>>
        /\ Contains(SkillSignal, Returned[i].user_id)
        /\ Cardinality(SharedSkills(Returned[i].user_id)) = 2
  /\ TotalUserSkills = 2

\* C19: the returned list holds each user id at most once and never the user
\* asked about, is sorted by non-increasing similarity_score, and has at most
\* limit entries, the highest-scored of the merged candidates: a candidate left
\* out scores no more than any entry of a full list.
C19_SortedUniqueTruncated ==
  SimDone =>
    /\ \A i, j \in 1..Len(Returned) : i < j =>
          /\ Returned[i].user_id # Returned[j].user_id
          /\ Returned[i].similarity_score >= Returned[j].similarity_score
    /\ answer.user_id \notin ReturnedIds
    /\ Len(Returned) <= answer.limit
    /\ ReturnedIds \subseteq Candidates
    /\ \A u \in Candidates \ ReturnedIds :
          /\ Len(Returned) = answer.limit
          /\ \A i \in 1..Len(Returned) : Returned[i].similarity_score >= FoldedScore(u)

\* a candidate of the embedding signal, first in the merged list, is left out by
\* limit for a higher-scored candidate that only a later signal found
C19_Witness ==
  /\ SimDone /\ answer.limit = 1 /\ Len(Returned) = 1
  /\ \E u \in Candidates \ ReturnedIds :
        /\ Contains(SemanticSignal, u)
        /\ ~Contains(SemanticSignal, Returned[1].user_id)
        /\ FoldedScore(u) < Returned[1].similarity_score

\* C20: only the embedding signal is filtered by minSimilarity: a returned
\* profile of the embedding signal alone scores at least minSimilarity, while a
\* candidate the skill or community signal contributed to is left out by limit
\* only, whatever its merged score.
C20_OnlyEmbeddingIsFiltered ==
  SimDone =>
    /\ \A i \in 1..Len(Returned) :
          LET u == Returned[i].user_id
          IN  (Contains(SemanticSignal, u) /\ Len(SignalScores(u)) = 1)
                 => Returned[i].similarity_score >= answer.min_similarity
    /\ \A u \in tables.users :
          (Contains(SkillSignal, u) \/ Contains(CommunitySignal, u))
             => \/ u \in ReturnedIds
                \/ /\ Len(Returned) = answer.limit
                   /\ \A i \in 1..Len(Returned) :
                         Returned[i].similarity_score >= FoldedScore(u)

\* with a floor above 0 one returned profile is of the embedding signal alone,
\* and another, to which the skill or community signal contributed, is below
\* the floor
C20_Witness ==
  /\ SimDone /\ answer.min_similarity > 0
  /\ \E i \in 1..Len(Returned) :
        /\ Contains(SemanticSignal, Returned[i].user_id)
        /\ Len(SignalScores(Returned[i].user_id)) = 1
  /\ \E i \in 1..Len(Returned) :
        /\ Contains(SkillSignal, Returned[i].user_id)
              \/ Contains(CommunitySignal, Returned[i].user_id)
        /\ Returned[i].similarity_score < answer.min_similarity

\* ------------------------------------------- sequential ledger and mirror
\* C26: when requests run one at a time, every reachable state holds at most one
\* connection row per unordered pair of users, rows of every status counted,
\* and no row whose requester is its addressee.
C26_OneRowPerPairInSequence ==
  /\ \A r1 \in rows, r2 \in rows :
        {r1.requester_id, r1.addressee_id} = {r2.requester_id, r2.addressee_id} => r1 = r2
  /\ \A r \in rows : r.requester_id # r.addressee_id

\* a declined row was revived by a request in the opposite direction
C26_Witness ==
  /\ RevivedBy(last)
  /\ \E c \in last.seen : c.requester_id = last.target /\ c.addressee_id = last.actor
  /\ Cardinality(rows) = 1

AcceptedEdge(a, b) == \E e \in neoEdges : {e.src, e.dst} = {a, b} /\ e.status = "accepted"

AcceptedRow(a, b) ==
  \E r \in rows : {r.requester_id, r.addressee_id} = {a, b} /\ r.status = "accepted"

\* C27: with the mirror reachable, both users mirrored and requests run one at a
\* time, after every sequence of completed operations the mirror has an accepted
\* edge between two users if and only if the store has an accepted row for the
\* pair, also after a decline followed by a re-request in the opposite direction.
C27_AcceptedEdgeIffAcceptedRow ==
  Quiet => \A a \in Users, b \in Users : a # b => (AcceptedEdge(a, b) <=> AcceptedRow(a, b))

\* the accepted row was revived in the opposite direction: the mirror still
\* holds the declined edge of the first request beside the accepted one
C27_Witness ==
  /\ Quiet /\ last.op = "accept" /\ last.outcome = "ok"
  /\ \E r \in rows : /\ r.status = "accepted"
                     /\ AcceptedEdge(r.requester_id, r.addressee_id)
                     /\ \E e \in neoEdges : /\ e.src = r.addressee_id
                                            /\ e.dst = r.requester_id
                                            /\ e.status = "declined"

\* C28: findPath is symmetric in its endpoints: for distinct users A and B and
\* every maxDepth, findPath(A, B, maxDepth) and findPath(B, A, maxDepth) return
\* the same found flag and the same length, in whatever order the rows come.
C28_FindPathIsSymmetric ==
  ( /\ SearchDone /\ answer.source_id # answer.target_id
    /\ answer.source_id \in tables.users /\ answer.target_id \in tables.users )
  => \A desc \in BOOLEAN :
        LET back == find_path(answer.target_id, answer.source_id, answer.max_depth, desc)
        IN  /\ back.found = answer.result.found
            /\ back.length = answer.result.length

\* a path of a connection and then a shared skill of the target, found from a
\* source that holds no skill
C28_Witness ==
  /\ SearchDone /\ answer.result.found /\ answer.result.length = 2
  /\ answer.result.edges[1].type = <<"CONNECTED_TO">>
  /\ answer.result.edges[2].type[1] = "SHARED_SKILL"
  /\ \A us \in tables.user_skills : us[1] # answer.source_id

\* ------------------------------------------------ graph assembly properties
GraphDone == answer.op = "get_knowledge_graph"

\* the request was answered with a graph, not with an exception
IsGraph(result) == "nodes" \in DOMAIN result

NodeIds(graph) == {graph.nodes[i].id : i \in 1..Len(graph.nodes)}

CenterId == NodeId("user", answer.user_id)

\* the mirrored users within k accepted relationships of the users S
RECURSIVE MirrorWithin(_, _)
MirrorWithin(S, k) ==
  IF k = 0 THEN S
  ELSE MirrorWithin(S \cup {u \in neoNodes : \E e \in AcceptedRels :
                                 \E v \in S : {e.src, e.dst} = {u, v}}, k - 1)

C23_EcosystemExtendsPersonal ==
  ( /\ GraphDone /\ answer.view_type = "ecosystem" /\ answer.filters = {}
    /\ answer.limit = LargestLimit /\ answer.user_id \in neoNodes )
  => /\ IsGraph(answer.result)
     /\ \A u \in MirrorWithin({answer.user_id}, answer.depth) :
           NodeId("user", u) \in NodeIds(answer.result)
     /\ \A p \in MatchedPaths(answer.user_id, answer.depth) : \A e \in p.rels :
           \E i \in 1..Len(answer.result.edges) :
              /\ answer.result.edges[i].type = "CONNECTED_TO"
              /\ {answer.result.edges[i].source, answer.result.edges[i].target}
                   = {NodeId("user", e.src), NodeId("user", e.dst)}
     /\ \A i \in 1..Len(answer.result.edges) :
           answer.result.edges[i].type \in {"HAS_SKILL", "MEMBER_OF", "ATTENDING"}
              => answer.result.edges[i].source = CenterId

\* C24: for a registered user the ecosystem view returns a node list that is not
\* empty and holds the node of that user, whatever else the user has.
C24_EcosystemHoldsCenter ==
  (GraphDone /\ answer.view_type = "ecosystem" /\ answer.user_id \in tables.users)
  => /\ IsGraph(answer.result)
     /\ answer.result.nodes # <<>>
     /\ CenterId \in NodeIds(answer.result)

\* the place of a node in the order of construction: the center, the connected
\* users, the skills, the communities, the events
Rank(node) ==
  CASE node.id = CenterId -> 1
    [] node.type = "user" -> 2
    [] node.type = "skill" -> 3
    [] node.type = "community" -> 4
    [] OTHER -> 5

\* the nodes the ecosystem view is built from, before the cut at limit
EcosystemNodes ==
  LET around == {GraphNode(NodeId("user", OtherEnd(e, answer.user_id)), "user") :
                   e \in {x \in AcceptedRels : answer.user_id \in {x.src, x.dst}}}
      linked == {GraphNode(l.dst, l.dst[1]) : l \in {x \in neoLinks : x.src = answer.user_id}}
      all == {GraphNode(CenterId, "user")} \cup around \cup linked
  IN  IF answer.filters = {} THEN all
      ELSE {n \in all : n.type \in answer.filters \/ n.id = CenterId}

\* C25: when the ecosystem node set exceeds limit, the returned nodes are the
\* first limit nodes in construction order: the center is kept, and a node of a
\* later group is kept only if every node of the earlier groups is kept.
C25_TruncationKeepsConstructionOrder ==
  ( /\ GraphDone /\ answer.view_type = "ecosystem" /\ answer.user_id \in neoNodes
    /\ Cardinality(EcosystemNodes) > answer.limit )
  => /\ IsGraph(answer.result)
     /\ Len(answer.result.nodes) = answer.limit
     /\ answer.result.nodes[1].id = CenterId
     /\ \A i, j \in 1..Len(answer.result.nodes) : i < j =>
           /\ answer.result.nodes[i] # answer.result.nodes[j]
           /\ Rank(answer.result.nodes[i]) <= Rank(answer.result.nodes[j])
     /\ \A i \in 1..Len(answer.result.nodes) :
           /\ answer.result.nodes[i] \in EcosystemNodes
           /\ \A m \in EcosystemNodes :
                 Rank(m) < Rank(answer.result.nodes[i])
                    => \E j \in 1..Len(answer.result.nodes) : answer.result.nodes[j] = m

\* the cut falls inside the skills: the center, a connected user and one of the
\* two skills are kept, the community and the event are not
C25_Witness ==
  /\ GraphDone /\ answer.view_type = "ecosystem" /\ answer.limit = 3
  /\ answer.filters = {}
  /\ Cardinality(EcosystemNodes) = 6
  /\ IsGraph(answer.result) /\ Len(answer.result.nodes) = 3
  /\ answer.result.nodes[2].type = "user" /\ answer.result.nodes[3].type = "skill"

\* C29: every edge of the ecosystem view has its source and its target among
\* the returned nodes and metadata.total_nodes is the number of returned nodes,
\* with a node-type filter and with a node list cut at limit.
C29_EdgesAmongReturnedNodes ==
  (GraphDone /\ answer.view_type = "ecosystem" /\ IsGraph(answer.result))
  => /\ \A i \in 1..Len(answer.result.edges) :
           /\ answer.result.edges[i].source \in NodeIds(answer.result)
           /\ answer.result.edges[i].target \in NodeIds(answer.result)
     /\ answer.result.metadata.total_nodes = Len(answer.result.nodes)

\* --------------------------------------------------- clustering properties
ClusterDone == answer.op = "get_clustered_graph"

UserNodes(graph) == {graph.nodes[i] : i \in {j \in 1..Len(graph.nodes) : graph.nodes[j].type = "user"}}

ClustersOf(graph) == {graph.clusters[i] : i \in 1..Len(graph.clusters)}

\* C21: every returned cluster has at least minClusterSize members, a node
\* carries a cluster assignment only if its group has that many members, and a
\* graph with fewer than minClusterSize users has no clusters.
C21_ClustersReachMinSize ==
  ClusterDone =>
    /\ \A c \in ClustersOf(answer.result) :
          /\ Cardinality(Items(c.node_ids)) >= answer.min_cluster_size
          /\ c.size = Cardinality(Items(c.node_ids))
    /\ \A i \in 1..Len(answer.result.nodes) :
          answer.result.nodes[i].cluster # NoCluster =>
             Cardinality({j \in 1..Len(answer.result.nodes) :
                            answer.result.nodes[j].cluster = answer.result.nodes[i].cluster})
               >= answer.min_cluster_size
    /\ Cardinality(UserNodes(answer.result)) < answer.min_cluster_size
          => /\ answer.result.clusters = <<>>
             /\ \A i \in 1..Len(answer.result.nodes) :
                   answer.result.nodes[i].cluster = NoCluster

\* a group of three is returned next to a user with a skill whose group is too
\* small and who carries no assignment
C21_Witness ==
  /\ ClusterDone /\ answer.min_cluster_size = 3
  /\ Len(answer.result.clusters) = 1
  /\ \E n \in UserNodes(answer.result) :
        /\ n.cluster = NoCluster
        /\ \E r \in tables.user_skills : NodeId("user", r[1]) = n.id

\* a call with the given algorithm can return the graph in the present state,
\* for some order of the fetched rows and of the skill sets
CanReturn(algorithm, graph) ==
  \E desc \in BOOLEAN, seconds \in SUBSET SeveralSkills :
     graph = get_clustered_graph(answer.user_id, algorithm, answer.min_cluster_size,
                                 answer.limit, desc, seconds)

====
